---------------------------- MODULE Spec2Model ----------------------------
(***************************************************************************)
(* Long-form synthesis pipeline of the Inworld TTS examples:                *)
(*   python/example_tts_long_input.py            (WAV, one worker per chunk)*)
(*   python/example_tts_long_input_compressed.py (MP3, fixed worker pool)   *)
(*                                                                         *)
(* Four state machines share this module:                                  *)
(*   SpecDispatch  the thread-pool dispatcher with per-chunk retry, and    *)
(*                 what main does with its outcome                         *)
(*   SpecChunker   chunk_text and the boundary finder, run on every        *)
(*                 document over a small alphabet                          *)
(*   SpecBoundary  the two boundary finders as functions of a long text    *)
(*   SpecReport    chunk_text followed by combine_audio_buffers and its    *)
(*                 splice report (long_input.py)                           *)
(***************************************************************************)
EXTENDS Integers, Sequences, FiniteSets

VARIABLES
    \* ---- dispatcher ----
    pipeline,       \* "compressed" (fixed pool, retry) or "wav" (one worker per chunk)
    N,              \* len(chunks) handed to the dispatcher
    mainpc,         \* position of the main thread
    submitted,      \* number of executor.submit calls made so far
    work_queue,     \* executor's FIFO of work items not yet taken by a worker
    status,         \* per chunk: state of its work item
    attempts,       \* per chunk: adapter calls begun (requests.post)
    responses,      \* per chunk: outcome of each finished adapter call, in order
    delays,         \* per chunk: time.sleep arguments, in order
    future,         \* per chunk: the future's result (index, audio), exception, or None
    collected,      \* futures already yielded by as_completed, in arrival order
    audio_buffers,  \* the result list, [None] * len(chunks) at first
    raised,         \* the exception propagating out of the dispatcher, or None
    \* ---- chunker ----
    text,           \* the document
    policy,         \* "sentence_first" (long_input.py) or "natural" (compressed)
    current_position,
    chunks,         \* list of TextChunk built so far
    slices,         \* raw [start, end) slices cut so far, kept or skipped
    chunkpc,        \* "loop" or "done"
    \* ---- boundary finder ----
    min_offset,     \* min_pos / MIN_CHUNK_SIZE of the call
    max_offset,     \* max_pos / MAX_CHUNK_SIZE of the call
    cut,            \* the offset returned, or None
    \* ---- combine_audio_buffers (long_input.py) ----
    rpc,            \* "idle", "ready", "loop" or "done"
    loop_index,     \* index of enumerate(audio_buffers)
    splice_points,
    current_time,
    raw_buffers,
    report,         \* the returned tuple, or None
    \* ---- main, after the dispatcher ----
    combined_audio, \* result of combine_audio_buffers, or None
    output_file,    \* what save_audio_to_file wrote, or None
    exit_code,      \* value returned by main, -1 while it runs
    \* ---- both dispatchers on one script of adapter responses ----
    script,         \* per chunk: the adapter's response to attempt 1, 2, ...
    outcome_of      \* per pipeline: how its dispatch ended, or None

dvars == <<pipeline, N, mainpc, submitted, work_queue, status, attempts,
           responses, delays, future, collected, audio_buffers, raised>>
cvars == <<text, policy, current_position, chunks, slices, chunkpc>>
bvars == <<min_offset, max_offset, cut>>
rvars == <<rpc, loop_index, splice_points, current_time, raw_buffers, report>>
mvars == <<combined_audio, output_file, exit_code>>
svars == <<script, outcome_of>>
vars == <<dvars, cvars, bvars, rvars, mvars, svars>>

\* Python's None (a record, so that it compares with results and exceptions).
None == [none |-> TRUE]

(***************************************************************************)
(* Configuration                                                           *)
(***************************************************************************)
MAX_CONCURRENT_REQUESTS == 2
MAX_RETRIES == 3
RETRY_BASE_DELAY == 1

\* Largest number of chunks dispatched.
MaxChunks == 3

(***************************************************************************)
(* Synthesis adapter outcomes: requests.post + raise_for_status            *)
(***************************************************************************)
Ok == [exc |-> "none", has_response |-> TRUE, status_code |-> 200]
HTTPError(code) == [exc |-> "HTTPError", has_response |-> TRUE, status_code |-> code]
Timeout == [exc |-> "Timeout", has_response |-> FALSE, status_code |-> 0]

RateLimited == HTTPError(429)
AuthError == HTTPError(401)
ServerError == HTTPError(500)

AdapterOutcomes == {Ok, RateLimited, AuthError, ServerError, Timeout}

\* What the adapter returns for the text of chunk i.
AudioOf(i) == [audio_for |-> i]

Indices == 0 .. (N - 1)

(***************************************************************************)
(* synthesize_speech: retry policy                                         *)
(***************************************************************************)
RECURSIVE Pow2(_)
Pow2(k) == IF k = 0 THEN 1 ELSE 2 * Pow2(k - 1)

HasRetryLoop == pipeline = "compressed"

is_rate_limit_any_error(e) == TRUE
is_rate_limit_no_response(e) == (~e.has_response) \/ e.status_code = 429

is_rate_limit(e) == e.has_response /\ e.status_code = 429

is_last_attempt_early(attempt) == attempt >= MAX_RETRIES - 2

is_last_attempt(attempt) == attempt = MAX_RETRIES - 1

BackoffDelay_shifted(attempt) == RETRY_BASE_DELAY * Pow2(attempt + 1)

BackoffDelay(attempt) == RETRY_BASE_DELAY * Pow2(attempt)

ShouldRetry_server_errors(e, attempt) ==
    /\ HasRetryLoop
    /\ is_rate_limit(e) \/ (e.has_response /\ e.status_code >= 500)
    /\ ~is_last_attempt(attempt)

\* except-branch of synthesize_speech: TRUE = sleep and continue, FALSE = raise.
\* long_input.py has no retry loop: every RequestException is re-raised.
ShouldRetry(e, attempt) ==
    /\ HasRetryLoop
    /\ is_rate_limit(e)
    /\ ~is_last_attempt(attempt)

(***************************************************************************)
(* ThreadPoolExecutor                                                      *)
(***************************************************************************)
max_workers_per_chunk == N

max_workers == IF pipeline = "compressed" THEN MAX_CONCURRENT_REQUESTS ELSE N

Running_and_failed == {i \in Indices : status[i] \in {"in_flight", "backoff", "failed"}}

Running_in_flight_only == {i \in Indices : status[i] = "in_flight"}

\* Work items a worker thread is currently running (calling or sleeping).
Running == {i \in Indices : status[i] \in {"in_flight", "backoff"}}
InFlight == {i \in Indices : status[i] = "in_flight"}

InitDispatch ==
    /\ pipeline \in {"compressed", "wav"}
    /\ N \in 0 .. MaxChunks
    /\ mainpc = "init"
    /\ submitted = 0
    /\ work_queue = <<>>
    /\ status = [i \in Indices |-> "unsubmitted"]
    /\ attempts = [i \in Indices |-> 0]
    /\ responses = [i \in Indices |-> <<>>]
    /\ delays = [i \in Indices |-> <<>>]
    /\ future = [i \in Indices |-> None]
    /\ collected = <<>>
    /\ audio_buffers = [i \in Indices |-> None]
    /\ raised = None
    /\ text = <<>>
    /\ policy = "natural"
    /\ current_position = 0
    /\ chunks = <<>>
    /\ slices = <<>>
    /\ chunkpc = "done"
    /\ min_offset = 0
    /\ max_offset = 0
    /\ cut = -1
    /\ rpc = "idle"
    /\ loop_index = 0
    /\ splice_points = <<>>
    /\ current_time = None
    /\ raw_buffers = <<>>
    /\ report = None
    /\ combined_audio = None
    /\ output_file = None
    /\ exit_code = -1
    /\ script = <<>>
    /\ outcome_of = <<>>

\* with ThreadPoolExecutor(max_workers=...) as executor: the constructor
\* raises ValueError when max_workers <= 0.  With no chunk nothing is
\* submitted or collected and the dispatcher returns the empty list.
OpenExecutor ==
    /\ mainpc = "init"
    /\ IF max_workers <= 0
         THEN /\ mainpc' = "failed"
              /\ raised' = [exc |-> "ValueError", has_response |-> FALSE, status_code |-> 0]
         ELSE /\ mainpc' = IF N = 0 THEN "returned" ELSE "submit"
              /\ raised' = raised
    /\ UNCHANGED <<svars, cvars, bvars, rvars, mvars, pipeline, N, submitted, work_queue, status, attempts, responses,
                   delays, future, collected, audio_buffers>>

\* executor.submit(synthesize_chunk_wrapper, args), in index order.
Submit ==
    /\ mainpc = "submit"
    /\ submitted < N
    /\ work_queue' = Append(work_queue, submitted)
    /\ status' = [status EXCEPT ![submitted] = "queued"]
    /\ submitted' = submitted + 1
    /\ mainpc' = IF submitted + 1 = N THEN "collect" ELSE "submit"
    /\ UNCHANGED <<svars, cvars, bvars, rvars, mvars, pipeline, N, attempts, responses, delays, future, collected,
                   audio_buffers, raised>>

\* A free worker thread takes the oldest work item and enters synthesize_speech:
\* first iteration of the retry loop, requests.post is sent.
StartCall(i) ==
    /\ work_queue # <<>>
    /\ i = Head(work_queue)
    /\ Cardinality(Running) < max_workers
    /\ work_queue' = Tail(work_queue)
    /\ status' = [status EXCEPT ![i] = "in_flight"]
    /\ attempts' = [attempts EXCEPT ![i] = 1]
    /\ UNCHANGED <<svars, cvars, bvars, rvars, mvars, pipeline, N, mainpc, submitted, responses, delays, future,
                   collected, audio_buffers, raised>>

RespondOk_none_asleep(i) ==
    /\ status[i] = "in_flight"
    /\ \A k \in Indices : status[k] # "backoff"
    /\ responses' = [responses EXCEPT ![i] = Append(@, Ok)]
    /\ status' = [status EXCEPT ![i] = "done"]
    /\ future' = [future EXCEPT ![i] = [index |-> i, audio_data |-> AudioOf(i)]]
    /\ UNCHANGED <<svars, cvars, bvars, rvars, mvars, pipeline, N, mainpc, submitted, work_queue, attempts, delays,
                   collected, audio_buffers, raised>>

\* requests.post returns 200: the wrapper returns (index, audio_data).
RespondOk(i) ==
    /\ status[i] = "in_flight"
    /\ responses' = [responses EXCEPT ![i] = Append(@, Ok)]
    /\ status' = [status EXCEPT ![i] = "done"]
    /\ future' = [future EXCEPT ![i] = [index |-> i, audio_data |-> AudioOf(i)]]
    /\ UNCHANGED <<svars, cvars, bvars, rvars, mvars, pipeline, N, mainpc, submitted, work_queue, attempts, delays,
                   collected, audio_buffers, raised>>

\* requests.post / raise_for_status raises a RequestException e.
RespondError(i, e) ==
    /\ status[i] = "in_flight"
    /\ e \in AdapterOutcomes \ {Ok}
    /\ responses' = [responses EXCEPT ![i] = Append(@, e)]
    /\ IF ShouldRetry(e, attempts[i] - 1)
         THEN /\ status' = [status EXCEPT ![i] = "backoff"]
              /\ delays' = [delays EXCEPT ![i] = Append(@, BackoffDelay(attempts[i] - 1))]
              /\ future' = future
         ELSE /\ status' = [status EXCEPT ![i] = "failed"]
              /\ delays' = delays
              /\ future' = [future EXCEPT ![i] = e]
    /\ UNCHANGED <<svars, cvars, bvars, rvars, mvars, pipeline, N, mainpc, submitted, work_queue, attempts, collected,
                   audio_buffers, raised>>

Wake_any(i) ==
    /\ status[i] \in {"backoff", "failed"}
    /\ attempts[i] < MAX_RETRIES
    /\ status' = [status EXCEPT ![i] = "in_flight"]
    /\ attempts' = [attempts EXCEPT ![i] = @ + 1]
    /\ UNCHANGED <<svars, cvars, bvars, rvars, mvars, pipeline, N, mainpc, submitted, work_queue, responses, delays,
                   future, collected, audio_buffers, raised>>

\* time.sleep(delay) returns; continue: next iteration sends requests.post.
\* After the last iteration the loop falls through to the RuntimeError.
Wake(i) ==
    /\ status[i] = "backoff"
    /\ IF attempts[i] < MAX_RETRIES
         THEN /\ status' = [status EXCEPT ![i] = "in_flight"]
              /\ attempts' = [attempts EXCEPT ![i] = @ + 1]
              /\ future' = future
         ELSE /\ status' = [status EXCEPT ![i] = "failed"]
              /\ attempts' = attempts
              /\ future' = [future EXCEPT ![i] =
                               [exc |-> "RuntimeError", has_response |-> FALSE, status_code |-> 0]]
    /\ UNCHANGED <<svars, cvars, bvars, rvars, mvars, pipeline, N, mainpc, submitted, work_queue, responses, delays,
                   collected, audio_buffers, raised>>

StoreIndex_arrival(index, arrival) == arrival

\* audio_buffers[index] = audio_data: the slot written for a collected future.
StoreIndex(index, arrival) == index

\* for future in as_completed(futures): index, audio_data = future.result();
\* audio_buffers[index] = audio_data.  After the last future the with-block
\* exits (all work is finished) and audio_buffers is returned.
CollectResult(i) ==
    /\ mainpc = "collect"
    /\ status[i] = "done"
    /\ \A k \in 1 .. Len(collected) : collected[k] # i
    /\ audio_buffers' = [audio_buffers EXCEPT
                            ![StoreIndex(future[i].index, Len(collected))] =
                                future[i].audio_data]
    /\ collected' = Append(collected, i)
    /\ mainpc' = IF Len(collected) + 1 = N THEN "returned" ELSE "collect"
    /\ UNCHANGED <<svars, cvars, bvars, rvars, mvars, pipeline, N, submitted, work_queue, status, attempts, responses,
                   delays, future, raised>>

CollectError_swallow(i) ==
    /\ mainpc = "collect"
    /\ status[i] = "failed"
    /\ \A k \in 1 .. Len(collected) : collected[k] # i
    /\ collected' = Append(collected, i)
    /\ mainpc' = IF Len(collected) + 1 = N THEN "returned" ELSE "collect"
    /\ UNCHANGED <<svars, cvars, bvars, rvars, mvars, pipeline, N, submitted, work_queue, status, attempts, responses,
                   delays, future, audio_buffers, raised>>

\* future.result() re-raises the worker's exception: the for loop is left and
\* the with-block's __exit__ runs executor.shutdown(wait=True).
CollectError(i) ==
    /\ mainpc = "collect"
    /\ status[i] = "failed"
    /\ \A k \in 1 .. Len(collected) : collected[k] # i
    /\ collected' = Append(collected, i)
    /\ raised' = future[i]
    /\ mainpc' = "shutdown"
    /\ UNCHANGED <<svars, cvars, bvars, rvars, mvars, pipeline, N, submitted, work_queue, status, attempts, responses,
                   delays, future, audio_buffers>>

\* shutdown(wait=True) without cancel_futures joins the workers, which first
\* drain the work queue; then the exception leaves the dispatcher.
ShutdownJoined ==
    /\ mainpc = "shutdown"
    /\ work_queue = <<>>
    /\ Running = {}
    /\ mainpc' = "failed"
    /\ UNCHANGED <<svars, cvars, bvars, rvars, mvars, pipeline, N, submitted, work_queue, status, attempts, responses,
                   delays, future, collected, audio_buffers, raised>>

CombineAudio_partial ==
    /\ mainpc \in {"returned", "failed"}
    /\ combined_audio = None
    /\ combined_audio' = [audio |-> [k \in 1 .. N |-> audio_buffers[k - 1]]]
    /\ UNCHANGED <<svars, dvars, cvars, bvars, rvars, output_file, exit_code>>

\* main: combined_audio = combine_audio_buffers(audio_buffers, ...), the
\* statement after the dispatcher has returned; the results are joined in
\* index order.
CombineAudio ==
    /\ mainpc = "returned"
    /\ combined_audio = None
    /\ combined_audio' = [audio |-> [k \in 1 .. N |-> audio_buffers[k - 1]]]
    /\ UNCHANGED <<svars, dvars, cvars, bvars, rvars, output_file, exit_code>>

\* main: save_audio_to_file(combined_audio, output_file)
SaveAudio ==
    /\ combined_audio # None
    /\ output_file = None
    /\ output_file' = combined_audio
    /\ UNCHANGED <<svars, dvars, cvars, bvars, rvars, combined_audio, exit_code>>

\* main: return 0
ReturnSuccess ==
    /\ output_file # None
    /\ exit_code = -1
    /\ exit_code' = 0
    /\ UNCHANGED <<svars, dvars, cvars, bvars, rvars, combined_audio, output_file>>

\* main: except Exception as e: print(f"Synthesis failed: {e}"); return 1
ReportFailure ==
    /\ mainpc = "failed"
    /\ exit_code = -1
    /\ exit_code' = 1
    /\ UNCHANGED <<svars, dvars, cvars, bvars, rvars, combined_audio, output_file>>

NextDispatch ==
    \/ OpenExecutor
    \/ Submit
    \/ \E i \in Indices : StartCall(i)
    \/ \E i \in Indices : RespondOk(i)
    \/ \E i \in Indices : \E e \in AdapterOutcomes : RespondError(i, e)
    \/ \E i \in Indices : Wake(i)
    \/ \E i \in Indices : CollectResult(i)
    \/ \E i \in Indices : CollectError(i)
    \/ ShutdownJoined
    \/ CombineAudio
    \/ SaveAudio
    \/ ReturnSuccess
    \/ ReportFailure

SpecDispatch == InitDispatch /\ [][NextDispatch]_vars

(***************************************************************************)
(* Dispatcher claims                                                       *)
(***************************************************************************)
AllRateLimited(i) == \A k \in 1 .. Len(responses[i]) : responses[i][k] = RateLimited

\* C1: whatever the completion order, when the dispatcher returns the result
\* at position i is the audio produced for chunk i, for every i in 0..N-1.
C1_ResultsByIndex ==
    mainpc = "returned" =>
        \A i \in Indices : /\ future[i] = [index |-> i, audio_data |-> AudioOf(i)]
                           /\ audio_buffers[i] = AudioOf(i)

\* Three chunks returned although the last chunk completed first.
C1_Witness ==
    /\ mainpc = "returned"
    /\ N = 3
    /\ collected = <<2, 0, 1>>

\* C2: a dispatch returns exactly N results with every slot filled, or fails
\* as a whole (an exception leaves it); it never returns with a slot unset.
C2_AllOrNothing ==
    /\ mainpc = "returned" =>
          /\ DOMAIN audio_buffers = Indices
          /\ \A i \in Indices : audio_buffers[i] # None
          /\ \A i \in Indices : status[i] = "done"
          /\ raised = None
    /\ mainpc = "failed" => raised # None
    /\ (\E i \in Indices : status[i] = "failed") => mainpc # "returned"

\* A three-chunk dispatch failed as a whole with two results already stored.
C2_Witness ==
    /\ mainpc = "failed"
    /\ N = 3
    /\ Cardinality({i \in Indices : audio_buffers[i] # None}) = 2

\* C3: in the fixed-pool dispatcher at most MAX_CONCURRENT_REQUESTS adapter
\* calls are in flight at once; chunks beyond the cap stay queued meanwhile.
C3_ConcurrencyCap ==
    pipeline = "compressed" =>
        /\ Cardinality(InFlight) <= MAX_CONCURRENT_REQUESTS
        /\ Cardinality(Running) <= MAX_CONCURRENT_REQUESTS
        /\ \A i \in Indices : status[i] = "queued" =>
              \E k \in 1 .. Len(work_queue) : work_queue[k] = i

\* The cap is reached while a further chunk waits in the queue.
C3_Witness ==
    /\ pipeline = "compressed"
    /\ Cardinality(InFlight) = MAX_CONCURRENT_REQUESTS
    /\ work_queue # <<>>

\* C4: a chunk whose every attempt is rate-limited makes exactly MAX_RETRIES
\* attempts, sleeps RETRY_BASE_DELAY * 2^attempt after attempt number
\* `attempt` (from 0) except after the last one, and then fails the pipeline.
C4_RetryTermination ==
    pipeline = "compressed" =>
        \A i \in Indices : (AllRateLimited(i) /\ responses[i] # <<>>) =>
            /\ Len(responses[i]) <= MAX_RETRIES
            /\ attempts[i] <= MAX_RETRIES
            /\ status[i] = "failed" <=> Len(responses[i]) = MAX_RETRIES
            /\ status[i] = "failed" =>
                  /\ attempts[i] = MAX_RETRIES
                  /\ Len(delays[i]) = MAX_RETRIES - 1
                  /\ future[i] = RateLimited
                  /\ mainpc # "returned"
            /\ status[i] # "failed" => Len(delays[i]) = Len(responses[i])
            /\ \A k \in 1 .. Len(delays[i]) :
                  delays[i][k] = RETRY_BASE_DELAY * Pow2(k - 1)

\* A chunk rate-limited on every attempt has failed and the dispatch with it.
C4_Witness ==
    /\ pipeline = "compressed"
    /\ mainpc = "failed"
    /\ \E i \in Indices : /\ status[i] = "failed"
                          /\ AllRateLimited(i)
                          /\ Len(responses[i]) = MAX_RETRIES
                          /\ raised = RateLimited

\* C5: once a chunk has failed fatally and the dispatcher has seen the failure
\* (the exception is propagating), no adapter call begins for a chunk that
\* had not started yet.
C5_NoStartAfterFatal ==
    [][((\E j \in Indices : status[j] = "failed") /\ raised # None) =>
          \A i \in Indices : status[i] \in {"unsubmitted", "queued"} =>
                                status'[i] # "in_flight"]_vars

C7_OtherFailureFatal ==
    /\ \A i \in Indices : \A k \in 1 .. Len(responses[i]) :
          responses[i][k] \notin {Ok, RateLimited} =>
              /\ k = Len(responses[i])
              /\ \A j \in 1 .. (k - 1) : responses[i][j] = RateLimited
              /\ attempts[i] = k
              /\ status[i] = "failed"
              /\ future[i] = responses[i][k]
              /\ mainpc # "returned"
    /\ (mainpc \in {"shutdown", "failed"} /\ N > 0) =>
          \E i \in Indices : status[i] = "failed" /\ raised = future[i]

\* An auth error on the second attempt, after one rate-limited attempt, has
\* left the dispatcher as its failure.
C7_Witness ==
    /\ mainpc = "failed"
    /\ raised = AuthError
    /\ \E i \in Indices : /\ responses[i] = <<RateLimited, AuthError>>
                          /\ status[i] = "failed"
                          /\ attempts[i] = 2

(***************************************************************************)
(* Text: a str is a sequence of one-character strings; positions are       *)
(* Python's 0-based offsets.                                               *)
(***************************************************************************)
\* Stand-ins for the configured sizes (1000 / 500 / 1900 characters), scaled
\* down so that every document up to MaxDocLen can be enumerated.
MIN_CHUNK_SIZE == 3
MIN_CHUNK_SIZE_compressed == 2
MAX_CHUNK_SIZE == 4

\* Longest document enumerated.
MaxDocLen == 7

TERMINATORS == {".", "!", "?"}
QUOTES == {"\"", "'"}
IsSpace(c) == c \in {" ", "\n", "\t", "\r"}

Alphabet == {"a", ".", "'", " ", "\n"}

Min(a, b) == IF a <= b THEN a ELSE b

\* s[i]
At(s, i) == s[i + 1]
\* s[a:b] for 0 <= a
Slice(s, a, b) == SubSeq(s, a + 1, Min(b, Len(s)))

\* s.find(sub, start): lowest index >= start where sub occurs, or -1.
find(s, sub, start) ==
    LET hits == {i \in start .. (Len(s) - Len(sub)) :
                    \A k \in 1 .. Len(sub) : s[i + k] = sub[k]}
    IN IF hits = {} THEN -1 ELSE CHOOSE i \in hits : \A j \in hits : i <= j

rfind_lowest(s, c) ==
    LET hits == {i \in 0 .. (Len(s) - 1) : At(s, i) = c}
    IN IF hits = {} THEN -1 ELSE CHOOSE i \in hits : \A j \in hits : i <= j

\* s.rfind(c): highest index of character c, or -1.
rfind(s, c) ==
    LET hits == {i \in 0 .. (Len(s) - 1) : At(s, i) = c}
    IN IF hits = {} THEN -1 ELSE CHOOSE i \in hits : \A j \in hits : i >= j

strip_left_only(s) ==
    LET solid == {i \in 1 .. Len(s) : ~IsSpace(s[i])}
    IN IF solid = {} THEN <<>>
       ELSE SubSeq(s, CHOOSE i \in solid : \A j \in solid : i <= j, Len(s))

\* s.strip()
strip(s) ==
    LET solid == {i \in 1 .. Len(s) : ~IsSpace(s[i])}
    IN IF solid = {} THEN <<>>
       ELSE SubSeq(s, CHOOSE i \in solid : \A j \in solid : i <= j,
                      CHOOSE i \in solid : \A j \in solid : i >= j)

\* End of the whitespace run that starts at q (greedy \s+).
RECURSIVE SpaceRunEnd(_, _)
SpaceRunEnd(s, q) ==
    IF q < Len(s) /\ IsSpace(At(s, q)) THEN SpaceRunEnd(s, q + 1) ELSE q

\* $ without re.MULTILINE: at the end, or before a trailing newline.
AtEnd(s, q) == q = Len(s) \/ (q = Len(s) - 1 /\ At(s, q) = "\n")

\* sentence_end_pattern = [.!?]["']?\s+|[.!?]["']?$ tried at position p:
\* the end of the match, or -1.  Alternatives and the optional quote are tried
\* in the regex engine's order.
MatchEndAt(s, p) ==
    IF ~(p < Len(s) /\ At(s, p) \in TERMINATORS) THEN -1
    ELSE LET hasQuote == p + 1 < Len(s) /\ At(s, p + 1) \in QUOTES
         IN IF hasQuote /\ p + 2 < Len(s) /\ IsSpace(At(s, p + 2))
              THEN SpaceRunEnd(s, p + 2)
            ELSE IF p + 1 < Len(s) /\ IsSpace(At(s, p + 1))
              THEN SpaceRunEnd(s, p + 1)
            ELSE IF hasQuote /\ AtEnd(s, p + 2)
              THEN p + 2
            ELSE IF AtEnd(s, p + 1)
              THEN p + 1
            ELSE -1

\* sentence_end_pattern.finditer(s) scanning from pos: the non-overlapping
\* matches, left to right.
RECURSIVE finditer(_, _)
finditer(s, pos) ==
    IF pos >= Len(s) THEN <<>>
    ELSE LET e == MatchEndAt(s, pos)
         IN IF e = -1 THEN finditer(s, pos + 1)
            ELSE <<[start |-> pos, end |-> e]>> \o finditer(s, e)

search_window_whole(t, max_pos) == t

\* search_text = text[:max_pos]
search_window(t, max_pos) == Slice(t, 0, max_pos)

SpaceBreak_nonneg(search_text, max_pos) ==
    LET space_index == rfind(search_text, " ")
    IN IF space_index >= 0 THEN space_index + 1 ELSE max_pos

\* Last resort of both boundary finders: just after the last space, else max_pos.
SpaceBreak(search_text, max_pos) ==
    LET space_index == rfind(search_text, " ")
    IN IF space_index > 0 THEN space_index + 1 ELSE max_pos

sentence_first_break_valid_only(remaining_text, min_size, max_size) ==
    LET search_text == search_window(remaining_text, max_size)
        matches == finditer(search_text, 0)
        valid_matches == SelectSeq(matches, LAMBDA m : m.end >= min_size)
    IN IF valid_matches # <<>> THEN valid_matches[1].end
       ELSE SpaceBreak(search_text, max_size)

\* long_input.py chunk_text, the branch that looks for a break point, with
\* the two sizes it reads (MIN_CHUNK_SIZE, MAX_CHUNK_SIZE) as parameters.
sentence_first_break(remaining_text, min_size, max_size) ==
    LET search_text == search_window(remaining_text, max_size)
        matches == finditer(search_text, 0)
        valid_matches == SelectSeq(matches, LAMBDA m : m.end >= min_size)
    IN IF valid_matches # <<>> THEN valid_matches[1].end
       ELSE IF matches # <<>> THEN matches[Len(matches)].end
       ELSE SpaceBreak(search_text, max_size)

\* long_input.py chunk_text: the cut within remaining_text (sentence first).
SentenceBreak(remaining_text) ==
    sentence_first_break(remaining_text, MIN_CHUNK_SIZE, MAX_CHUNK_SIZE)

find_break_point_newline_first(t, min_pos, max_pos) ==
    LET search_text == search_window(t, max_pos)
        para == find(search_text, <<"\n", "\n">>, min_pos)
        line == find(search_text, <<"\n">>, min_pos)
        matches == finditer(search_text, 0)
        after_min == SelectSeq(matches, LAMBDA m : m.start >= min_pos)
        last_sentence_end == IF matches = <<>> THEN -1 ELSE matches[Len(matches)].end
    IN IF line # -1 /\ line < max_pos /\ line >= min_pos THEN line + 1
       ELSE IF para # -1 /\ para < max_pos /\ para >= min_pos THEN para + 2
       ELSE IF after_min # <<>> THEN after_min[1].end
       ELSE IF last_sentence_end > 0 THEN last_sentence_end
       ELSE SpaceBreak(search_text, max_pos)

\* compressed find_break_point(text, min_pos, max_pos, chunk_index)
find_break_point(t, min_pos, max_pos) ==
    LET search_text == search_window(t, max_pos)
        para == find(search_text, <<"\n", "\n">>, min_pos)
        line == find(search_text, <<"\n">>, min_pos)
        matches == finditer(search_text, 0)
        after_min == SelectSeq(matches, LAMBDA m : m.start >= min_pos)
        last_sentence_end == IF matches = <<>> THEN -1 ELSE matches[Len(matches)].end
    IN IF para # -1 /\ para < max_pos /\ para >= min_pos THEN para + 2
       ELSE IF line # -1 /\ line < max_pos /\ line >= min_pos THEN line + 1
       ELSE IF after_min # <<>> THEN after_min[1].end
       ELSE IF last_sentence_end > 0 THEN last_sentence_end
       ELSE SpaceBreak(search_text, max_pos)

\* The cut chosen by the chunker of the active policy.
ChunkEnd(remaining_text) ==
    IF policy = "sentence_first"
      THEN SentenceBreak(remaining_text)
      ELSE find_break_point(remaining_text, MIN_CHUNK_SIZE_compressed, MAX_CHUNK_SIZE)

TextChunk_trimmed_span(t, s, e) == [text |-> t, start_char |-> s, end_char |-> s + Len(t)]

TextChunk(t, s, e) == [text |-> t, start_char |-> s, end_char |-> e]

KeepChunk_always(chunk_content) == TRUE

KeepChunk_long(chunk_content) == Len(chunk_content) > 1

\* if chunk_content:
KeepChunk(chunk_content) == chunk_content # <<>>

AdvanceCursor_trimmed(pos, chunk_end, chunk_content) == pos + Len(chunk_content)

AdvanceCursor_content(pos, chunk_end, chunk_content) ==
    IF chunk_content = <<>> THEN pos ELSE pos + chunk_end

\* current_position += chunk_end
AdvanceCursor(pos, chunk_end, chunk_content) == pos + chunk_end

\* Documents enumerated: every string over Alphabet up to MaxDocLen in which
\* a quote occurs only right after a terminator (anywhere else a quote is
\* treated by every operation exactly as the letter is).
QuoteOnlyAfterTerminator(d) ==
    \A i \in 1 .. Len(d) : d[i] \in QUOTES => (i > 1 /\ d[i - 1] \in TERMINATORS)

Documents ==
    {d \in UNION {[1 .. n -> Alphabet] : n \in 0 .. MaxDocLen} :
        QuoteOnlyAfterTerminator(d)}

InitChunker ==
    /\ text \in Documents
    /\ policy \in {"sentence_first", "natural"}
    /\ current_position = 0
    /\ chunks = <<>>
    /\ slices = <<>>
    /\ chunkpc = "loop"
    /\ pipeline = "compressed"
    /\ N = 0
    /\ mainpc = "idle"
    /\ submitted = 0
    /\ work_queue = <<>>
    /\ status = <<>>
    /\ attempts = <<>>
    /\ responses = <<>>
    /\ delays = <<>>
    /\ future = <<>>
    /\ collected = <<>>
    /\ audio_buffers = <<>>
    /\ raised = None
    /\ min_offset = 0
    /\ max_offset = 0
    /\ cut = -1
    /\ rpc = "idle"
    /\ loop_index = 0
    /\ splice_points = <<>>
    /\ current_time = None
    /\ raw_buffers = <<>>
    /\ report = None
    /\ combined_audio = None
    /\ output_file = None
    /\ exit_code = -1
    /\ script = <<>>
    /\ outcome_of = <<>>

\* while current_position < len(text): condition false, return chunks.
LoopExit ==
    /\ chunkpc = "loop"
    /\ ~(current_position < Len(text))
    /\ chunkpc' = "done"
    /\ UNCHANGED <<svars, dvars, bvars, rvars, mvars, text, policy, current_position, chunks, slices>>

TakeRest_no_append ==
    /\ chunkpc = "loop"
    /\ current_position < Len(text)
    /\ Len(text) - current_position <= MAX_CHUNK_SIZE
    /\ slices' = Append(slices, [start |-> current_position, end |-> Len(text), kept |-> FALSE])
    /\ chunkpc' = "done"
    /\ UNCHANGED <<svars, dvars, bvars, rvars, mvars, text, policy, current_position, chunks>>

\* The remaining text fits: take it all (if not blank) and break.
TakeRest ==
    /\ chunkpc = "loop"
    /\ current_position < Len(text)
    /\ LET remaining_text == Slice(text, current_position, Len(text))
           chunk_content == strip(remaining_text)
       IN /\ Len(remaining_text) <= MAX_CHUNK_SIZE
          /\ chunks' = IF KeepChunk(chunk_content)
                         THEN Append(chunks, TextChunk(chunk_content, current_position, Len(text)))
                         ELSE chunks
          /\ slices' = Append(slices, [start |-> current_position, end |-> Len(text),
                                       kept |-> KeepChunk(chunk_content)])
    /\ chunkpc' = "done"
    /\ UNCHANGED <<svars, dvars, bvars, rvars, mvars, text, policy, current_position>>

\* The remaining text is too long: cut at the boundary finder's offset,
\* append the trimmed slice (if not blank), advance the cursor.
CutChunk ==
    /\ chunkpc = "loop"
    /\ current_position < Len(text)
    /\ LET remaining_text == Slice(text, current_position, Len(text))
           chunk_end == ChunkEnd(remaining_text)
           chunk_content == strip(Slice(remaining_text, 0, chunk_end))
       IN /\ Len(remaining_text) > MAX_CHUNK_SIZE
          /\ chunks' = IF KeepChunk(chunk_content)
                         THEN Append(chunks, TextChunk(chunk_content, current_position,
                                                       current_position + chunk_end))
                         ELSE chunks
          /\ slices' = Append(slices, [start |-> current_position,
                                       end |-> current_position + chunk_end,
                                       kept |-> KeepChunk(chunk_content)])
          /\ current_position' = AdvanceCursor(current_position, chunk_end, chunk_content)
    /\ UNCHANGED <<svars, dvars, bvars, rvars, mvars, text, policy, chunkpc>>

NextChunker ==
    \/ LoopExit
    \/ TakeRest
    \/ CutChunk

SpecChunker == InitChunker /\ [][NextChunker]_vars

(***************************************************************************)
(* Chunker claims                                                          *)
(***************************************************************************)
NonBlank(t) == \E i \in 1 .. Len(t) : ~IsSpace(t[i])
BlankBetween(a, b) == \A p \in a .. (b - 1) : IsSpace(At(text, p))

\* C8 as stated: the returned chunks are contiguous: the first starts at 0,
\* each next one starts where the previous one ends, the last ends at
\* len(document).
C8_Contiguous ==
    (chunkpc = "done" /\ chunks # <<>>) =>
        /\ chunks[1].start_char = 0
        /\ \A k \in 1 .. (Len(chunks) - 1) : chunks[k + 1].start_char = chunks[k].end_char
        /\ chunks[Len(chunks)].end_char = Len(text)

\* C8 amended: the chunks are in ascending order without overlaps and are
\* contiguous up to skipped blank slices: before the first chunk, between
\* two consecutive chunks and after the last chunk lies nothing but
\* whitespace.
C8_ContiguousUpToBlanks ==
    /\ \A k \in 1 .. Len(chunks) :
          /\ 0 <= chunks[k].start_char
          /\ chunks[k].start_char < chunks[k].end_char
          /\ chunks[k].end_char <= Len(text)
    /\ \A k \in 1 .. (Len(chunks) - 1) :
          /\ chunks[k].end_char <= chunks[k + 1].start_char
          /\ BlankBetween(chunks[k].end_char, chunks[k + 1].start_char)
    /\ chunks # <<>> => BlankBetween(0, chunks[1].start_char)
    /\ (chunkpc = "done" /\ chunks # <<>>) =>
          BlankBetween(chunks[Len(chunks)].end_char, Len(text))

\* Two chunks returned with a skipped blank slice between them.
C8_Witness ==
    /\ chunkpc = "done"
    /\ Len(chunks) >= 2
    /\ \E k \in 1 .. (Len(chunks) - 1) : chunks[k].end_char < chunks[k + 1].start_char

\* C9: every chunk has raw length end_char - start_char <= MAX_CHUNK_SIZE and
\* a non-empty trimmed text.
C9_ChunkBound ==
    /\ \A k \in 1 .. Len(chunks) :
          /\ chunks[k].end_char - chunks[k].start_char <= MAX_CHUNK_SIZE
          /\ chunks[k].text # <<>>
          /\ NonBlank(chunks[k].text)
          /\ ~IsSpace(chunks[k].text[1])
          /\ ~IsSpace(chunks[k].text[Len(chunks[k].text)])
    /\ \A k \in 1 .. Len(slices) : slices[k].end - slices[k].start <= MAX_CHUNK_SIZE

\* A chunk of exactly MAX_CHUNK_SIZE raw characters was returned and a blank
\* slice of the same document was left out.
C9_Witness ==
    /\ chunkpc = "done"
    /\ \E k \in 1 .. Len(chunks) :
          chunks[k].end_char - chunks[k].start_char = MAX_CHUNK_SIZE
    /\ \E k \in 1 .. Len(slices) : ~slices[k].kept

\* C10 as stated: any document of length >= 1 gets at least one chunk.
C10_NonEmptyDocHasChunk ==
    (chunkpc = "done" /\ Len(text) >= 1) => Len(chunks) >= 1

\* C10 amended: any document holding at least one non-whitespace character
\* gets at least one chunk.
C10_NonBlankDocHasChunk ==
    (chunkpc = "done" /\ NonBlank(text)) => Len(chunks) >= 1

\* A document that begins with a skipped blank slice still yields its chunk.
C10_Witness ==
    /\ chunkpc = "done"
    /\ NonBlank(text)
    /\ Len(chunks) = 1
    /\ chunks[1].start_char > 0

(***************************************************************************)
(* The boundary finders as functions: one call on a text longer than       *)
(* max_offset, for either policy.                                          *)
(***************************************************************************)
\* Stand-ins for the sizes of one call (500 or 1000 / 1900 characters): the
\* minimum offset is BoundaryMin or BoundaryMin + 1, the maximum BoundaryMax.
BoundaryMin == 2
BoundaryMax == 6

\* Texts handed to the boundary finder: remaining_text is longer than the
\* maximum chunk size whenever a break point is looked for.
LongTexts ==
    {d \in [1 .. (BoundaryMax + 1) -> Alphabet] : QuoteOnlyAfterTerminator(d)}

InitBoundary ==
    /\ text \in LongTexts
    /\ policy \in {"sentence_first", "natural"}
    /\ min_offset \in {BoundaryMin, BoundaryMin + 1}
    /\ max_offset = BoundaryMax
    /\ cut = -1
    /\ current_position = 0
    /\ chunks = <<>>
    /\ slices = <<>>
    /\ chunkpc = "done"
    /\ pipeline = "compressed"
    /\ N = 0
    /\ mainpc = "idle"
    /\ submitted = 0
    /\ work_queue = <<>>
    /\ status = <<>>
    /\ attempts = <<>>
    /\ responses = <<>>
    /\ delays = <<>>
    /\ future = <<>>
    /\ collected = <<>>
    /\ audio_buffers = <<>>
    /\ raised = None
    /\ rpc = "idle"
    /\ loop_index = 0
    /\ splice_points = <<>>
    /\ current_time = None
    /\ raw_buffers = <<>>
    /\ report = None
    /\ combined_audio = None
    /\ output_file = None
    /\ exit_code = -1
    /\ script = <<>>
    /\ outcome_of = <<>>

\* long_input.py: the break point search inside chunk_text.
FindSentenceBreak ==
    /\ policy = "sentence_first"
    /\ cut = -1
    /\ cut' = sentence_first_break(text, min_offset, max_offset)
    /\ UNCHANGED <<svars, dvars, cvars, rvars, mvars, min_offset, max_offset>>

\* compressed: chunk_end = find_break_point(remaining_text, min, max, index)
FindBreakPoint ==
    /\ policy = "natural"
    /\ cut = -1
    /\ cut' = find_break_point(text, min_offset, max_offset)
    /\ UNCHANGED <<svars, dvars, cvars, rvars, mvars, min_offset, max_offset>>

NextBoundary ==
    \/ FindSentenceBreak
    \/ FindBreakPoint

SpecBoundary == InitBoundary /\ [][NextBoundary]_vars

(***************************************************************************)
(* Boundary finder claims                                                  *)
(***************************************************************************)
\* The first max_offset characters of the text.
Window == Slice(text, 0, max_offset)

MinOf(S) == CHOOSE x \in S : \A y \in S : x <= y
MaxOf(S) == CHOOSE x \in S : \A y \in S : x >= y

\* The sentence ends of w as pairs <<p, e>>: a terminator at offset p, a
\* closing quote if one follows, then either the whole run of whitespace that
\* follows, ending at e, or the end of w at e.
SentenceEnds(w) ==
    {pe \in (0 .. (Len(w) - 1)) \X (1 .. Len(w)) :
        LET p == pe[1]
            e == pe[2]
            quoted == p + 1 < Len(w) /\ At(w, p + 1) \in QUOTES
            q == IF quoted THEN p + 2 ELSE p + 1
        IN /\ At(w, p) \in TERMINATORS
           /\ q <= e
           /\ \A i \in q .. (e - 1) : IsSpace(At(w, i))
           /\ \/ q < e /\ (e = Len(w) \/ ~IsSpace(At(w, e)))
              \/ q = e /\ e = Len(w)}

\* Of a set of sentence ends, the one that starts first / last.
FirstEnd(M) == (CHOOSE pe \in M : \A other \in M : pe[1] <= other[1])[2]
LastEnd(M) == (CHOOSE pe \in M : \A other \in M : pe[1] >= other[1])[2]

\* Offsets >= lo of w that hold a space character.
SpacesFrom(w, lo) == {i \in lo .. (Len(w) - 1) : At(w, i) = " "}

\* No sentence punctuation and no line break in w.
PlainWindow(w) ==
    \A i \in 0 .. (Len(w) - 1) : At(w, i) \notin TERMINATORS /\ At(w, i) # "\n"

\* C14 as stated: when the first max_offset characters hold no sentence
\* punctuation and no line break, and the text has no space at any offset in
\* [min_offset, max_offset], both boundary finders cut exactly at max_offset.
C14_FallbackToMax ==
    (/\ cut # -1
     /\ PlainWindow(Window)
     /\ \A i \in min_offset .. max_offset : At(text, i) # " ")
        => cut = max_offset

\* C14 amended: when the first max_offset characters hold no sentence
\* punctuation and no line break, both boundary finders cut just after the
\* last space at an offset in [1, max_offset), also when that space lies below
\* min_offset, and exactly at max_offset when there is no such space.
C14_FallbackToLastSpaceOrMax ==
    (cut # -1 /\ PlainWindow(Window)) =>
        cut = IF SpacesFrom(Window, 1) # {}
                THEN MaxOf(SpacesFrom(Window, 1)) + 1
                ELSE max_offset

\* No punctuation, no line break, the only space of the window at offset 0:
\* the cut is max_offset.
C14_Witness ==
    /\ cut = max_offset
    /\ PlainWindow(Window)
    /\ SpacesFrom(Window, 0) = {0}

\* The cut the sentence-first policy is said to choose, given the offsets of
\* the spaces that count for the last fallback.
SentenceFirstCut(w, spaces) ==
    LET M == SentenceEnds(w)
        V == {pe \in M : pe[2] >= min_offset}
    IN IF V # {} THEN FirstEnd(V)
       ELSE IF M # {} THEN LastEnd(M)
       ELSE IF spaces # {} THEN MaxOf(spaces) + 1
       ELSE max_offset

\* C18 as stated: the sentence-first cut is the end of the first sentence end
\* whose end is >= min_offset; failing that the end of the last sentence end
\* of the window; failing that the position just after the last space of the
\* window; and max_offset if the window has no space.
C18_SentenceFirstOrder ==
    (policy = "sentence_first" /\ cut # -1) =>
        cut = SentenceFirstCut(Window, SpacesFrom(Window, 0))

\* C18 amended: the same order, where the last space counts only at an offset
\* >= 1: a window whose only space is its first character is cut at
\* max_offset.
C18_SentenceFirstOrderSpaceAfterStart ==
    (policy = "sentence_first" /\ cut # -1) =>
        cut = SentenceFirstCut(Window, SpacesFrom(Window, 1))

\* Sentence ends exist but all end below min_offset: the cut is the end of
\* the last one, although a later space exists.
C18_Witness ==
    /\ policy = "sentence_first"
    /\ cut # -1
    /\ SentenceEnds(Window) # {}
    /\ \A pe \in SentenceEnds(Window) : pe[2] < min_offset
    /\ cut = LastEnd(SentenceEnds(Window))
    /\ \E i \in SpacesFrom(Window, 1) : i + 1 > cut

\* The cut the natural-boundary policy is said to choose.
NaturalCut(w, spaces) ==
    LET P == {i \in min_offset .. (Len(w) - 2) : At(w, i) = "\n" /\ At(w, i + 1) = "\n"}
        L == {i \in min_offset .. (Len(w) - 1) : At(w, i) = "\n"}
        M == SentenceEnds(w)
        A == {pe \in M : pe[1] >= min_offset}
    IN IF P # {} THEN MinOf(P) + 2
       ELSE IF L # {} THEN MinOf(L) + 1
       ELSE IF A # {} THEN FirstEnd(A)
       ELSE IF M # {} THEN LastEnd(M)
       ELSE IF spaces # {} THEN MaxOf(spaces) + 1
       ELSE max_offset

\* C19 as stated: the natural-boundary cut follows a strict priority: just
\* past the first paragraph break at or after min_offset inside the window;
\* else just past the first newline at or after min_offset; else the end of
\* the first sentence terminator at or after min_offset; else the end of the
\* last sentence terminator of the window; else just past the last space;
\* else max_offset.
C19_NaturalOrder ==
    (policy = "natural" /\ cut # -1) =>
        cut = NaturalCut(Window, SpacesFrom(Window, 0))

\* C19 amended: the same priority, where the last space counts only at an
\* offset >= 1.
C19_NaturalOrderSpaceAfterStart ==
    (policy = "natural" /\ cut # -1) =>
        cut = NaturalCut(Window, SpacesFrom(Window, 1))

\* A paragraph break wins over a single newline and a sentence terminator
\* that both come earlier, at or after min_offset.
C19_Witness ==
    /\ policy = "natural"
    /\ cut # -1
    /\ \E i \in min_offset .. (max_offset - 2) :
          /\ At(text, i) = "\n" /\ At(text, i + 1) = "\n"
          /\ cut = i + 2
          /\ \E j \in min_offset .. (i - 2) : At(text, j) = "\n"
          /\ \E pe \in SentenceEnds(Window) : pe[1] >= min_offset /\ pe[1] < i

\* C20: on a text longer than max_offset, with 0 < min_offset < max_offset,
\* either boundary finder returns a cut c with 0 < c <= max_offset.
C20_CutInRange ==
    (cut # -1 /\ Len(text) > max_offset /\ 0 < min_offset /\ min_offset < max_offset)
        => (0 < cut /\ cut <= max_offset)

\* The cut is max_offset because a paragraph break ends exactly there.
C20_Witness ==
    /\ policy = "natural"
    /\ cut = max_offset
    /\ At(text, max_offset - 2) = "\n"
    /\ At(text, max_offset - 1) = "\n"
    /\ At(text, max_offset) = "\n"

(***************************************************************************)
(* combine_audio_buffers of long_input.py: the reassembler and its splice  *)
(* report, run on the chunks of a document and one audio result per chunk. *)
(***************************************************************************)
SAMPLE_RATE == 48000
BITS_PER_SAMPLE == 16
CHANNELS == 1
\* Size of the WAV header skipped by extract_raw_audio.
WAV_HEADER_SIZE == 44
\* b'RIFF'
RIFF == <<82, 73, 70, 70>>

\* A float is m * 2^e with MantDig significant bits (2^(MantDig-1) <= m <
\* 2^MantDig) or zero; every operation rounds to nearest, ties to even.
\* MantDig stands in for the 53 bits of a Python float.
MantDig == 5

FloatZero == [m |-> 0, e |-> 0]

\* n / d rounded to the nearest integer, ties to even.
RoundHalfEven(n, d) ==
    LET q == n \div d
        r == n % d
    IN IF 2 * r < d THEN q
       ELSE IF 2 * r > d THEN q + 1
       ELSE IF q % 2 = 0 THEN q ELSE q + 1

\* The float nearest to (n / d) * 2^x, for n >= 0 and d > 0.
RECURSIVE FloatOf(_, _, _)
FloatOf(n, d, x) ==
    IF n = 0 THEN FloatZero
    ELSE IF n < d * Pow2(MantDig - 1) THEN FloatOf(2 * n, d, x - 1)
    ELSE IF n >= d * Pow2(MantDig) THEN FloatOf(n, 2 * d, x + 1)
    ELSE LET m == RoundHalfEven(n, d)
         IN IF m = Pow2(MantDig) THEN [m |-> Pow2(MantDig - 1), e |-> x + 1]
            ELSE [m |-> m, e |-> x]

\* a + b
FloatAdd(a, b) ==
    IF a.m = 0 THEN b
    ELSE IF b.m = 0 THEN a
    ELSE LET x == Min(a.e, b.e)
         IN FloatOf(a.m * Pow2(a.e - x) + b.m * Pow2(b.e - x), 1, x)

\* a <= b
FloatLeq(a, b) ==
    \/ a.m = 0
    \/ b.m # 0 /\ (a.e < b.e \/ (a.e = b.e /\ a.m <= b.m))

extract_raw_audio_keep_header(audio_data) == audio_data

\* if len(audio_data) > 44 and audio_data[:4] == b'RIFF': return audio_data[44:]
extract_raw_audio(audio_data) ==
    IF Len(audio_data) > WAV_HEADER_SIZE /\ Slice(audio_data, 0, 4) = RIFF
      THEN Slice(audio_data, WAV_HEADER_SIZE, Len(audio_data))
      ELSE audio_data

bytes_per_second == SAMPLE_RATE * (BITS_PER_SAMPLE \div 8) * CHANNELS

calculate_duration_per_sample(raw_audio) ==
    FloatOf(Len(raw_audio), SAMPLE_RATE * CHANNELS, 0)

\* len(raw_audio) / bytes_per_second
calculate_duration(raw_audio) == FloatOf(Len(raw_audio), bytes_per_second, 0)

RECURSIVE join_reversed(_)
join_reversed(buffers) ==
    IF buffers = <<>> THEN <<>> ELSE join_reversed(Tail(buffers)) \o Head(buffers)

\* b''.join(buffers)
RECURSIVE join(_)
join(buffers) ==
    IF buffers = <<>> THEN <<>> ELSE Head(buffers) \o join(Tail(buffers))

EmitsSplice_every(index) == TRUE

\* if index > 0:
EmitsSplice(index) == index > 0

\* SplicePoint(...); formatted_time, a rendering of timestamp for the printed
\* report, is not carried.
SplicePoint(index, timestamp, chunk) ==
    [splice_index |-> index,
     timestamp |-> timestamp,
     chunk_start_char |-> chunk.start_char,
     chunk_end_char |-> chunk.end_char,
     text_preview |-> Slice(chunk.text, 0, 50) \o <<".", ".", ".">>]

\* Audio results enumerated: a payload of up to MaxPayload bytes, bare or
\* behind a 44-byte RIFF header.
MaxPayload == 4
WavHeader == [k \in 1 .. WAV_HEADER_SIZE |-> IF k <= 4 THEN RIFF[k] ELSE 0]
Payloads == {[k \in 1 .. n |-> n] : n \in 0 .. MaxPayload}
Buffers == Payloads \cup {WavHeader \o payload : payload \in Payloads}

\* Documents of the report runs: every document that fits one chunk, and the
\* longer ones made of letters and spaces.
ReportDocuments ==
    {d \in Documents :
        Len(d) <= MAX_CHUNK_SIZE \/ \A k \in 1 .. Len(d) : d[k] \in {"a", " "}}

InitReport ==
    /\ text \in ReportDocuments
    /\ policy \in {"sentence_first", "natural"}
    /\ current_position = 0
    /\ chunks = <<>>
    /\ slices = <<>>
    /\ chunkpc = "loop"
    /\ pipeline = IF policy = "sentence_first" THEN "wav" ELSE "compressed"
    /\ N = 0
    /\ mainpc = "idle"
    /\ submitted = 0
    /\ work_queue = <<>>
    /\ status = <<>>
    /\ attempts = <<>>
    /\ responses = <<>>
    /\ delays = <<>>
    /\ future = <<>>
    /\ collected = <<>>
    /\ audio_buffers = <<>>
    /\ raised = None
    /\ min_offset = 0
    /\ max_offset = 0
    /\ cut = -1
    /\ rpc = "idle"
    /\ loop_index = 0
    /\ splice_points = <<>>
    /\ current_time = None
    /\ raw_buffers = <<>>
    /\ report = None
    /\ combined_audio = None
    /\ output_file = None
    /\ exit_code = -1
    /\ script = <<>>
    /\ outcome_of = <<>>

\* main of long_input.py: every chunk has been synthesized and its audio
\* stored at the chunk's index; combine_audio_buffers is entered.
Synthesized ==
    /\ pipeline = "wav"
    /\ chunkpc = "done"
    /\ rpc = "idle"
    /\ Len(chunks) >= 1
    /\ N' = Len(chunks)
    /\ \E results \in [0 .. (Len(chunks) - 1) -> Buffers] : audio_buffers' = results
    /\ splice_points' = <<>>
    /\ current_time' = FloatZero
    /\ raw_buffers' = <<>>
    /\ loop_index' = 0
    /\ rpc' = "loop"
    /\ UNCHANGED <<svars, cvars, bvars, mvars, pipeline, mainpc, submitted, work_queue, status, attempts,
                   responses, delays, future, collected, raised, report>>

\* One iteration of for index, buffer in enumerate(audio_buffers).
CombineStep ==
    /\ rpc = "loop"
    /\ loop_index < N
    /\ LET raw_audio == extract_raw_audio(audio_buffers[loop_index])
           duration == calculate_duration(raw_audio)
       IN /\ splice_points' =
                IF EmitsSplice(loop_index)
                  THEN Append(splice_points,
                              SplicePoint(loop_index, current_time, chunks[loop_index + 1]))
                  ELSE splice_points
          /\ current_time' = FloatAdd(current_time, duration)
          /\ raw_buffers' = Append(raw_buffers, raw_audio)
    /\ loop_index' = loop_index + 1
    /\ UNCHANGED <<svars, dvars, cvars, bvars, mvars, rpc, report>>

\* return combined_audio, splice_points, current_time
CombineReturn ==
    /\ rpc = "loop"
    /\ loop_index = N
    /\ report' = [combined_audio |-> join(raw_buffers),
                  splice_points |-> splice_points,
                  total_duration |-> current_time]
    /\ rpc' = "done"
    /\ UNCHANGED <<svars, dvars, cvars, bvars, mvars, loop_index, splice_points, current_time, raw_buffers>>

\* main of long_input_compressed.py: synthesize_all_chunks has returned the
\* audio of every chunk, stored at the chunk's index (no chunk at all for a
\* document of whitespace).
SynthesizedAll ==
    /\ pipeline = "compressed"
    /\ chunkpc = "done"
    /\ rpc = "idle"
    /\ N' = Len(chunks)
    /\ \E results \in [0 .. (Len(chunks) - 1) -> Buffers] : audio_buffers' = results
    /\ rpc' = "join"
    /\ UNCHANGED <<svars, cvars, bvars, mvars, pipeline, mainpc, submitted, work_queue, status, attempts,
                   responses, delays, future, collected, raised, loop_index, splice_points,
                   current_time, raw_buffers, report>>

\* long_input_compressed.py combine_audio_buffers: b''.join(audio_buffers).
JoinBuffers ==
    /\ rpc = "join"
    /\ report' = [combined_audio |-> join([k \in 1 .. N |-> audio_buffers[k - 1]])]
    /\ rpc' = "joined"
    /\ UNCHANGED <<svars, dvars, cvars, bvars, mvars, loop_index, splice_points, current_time, raw_buffers>>

NextReport ==
    \/ LoopExit
    \/ TakeRest
    \/ CutChunk
    \/ Synthesized
    \/ CombineStep
    \/ CombineReturn
    \/ SynthesizedAll
    \/ JoinBuffers

SpecReport == InitReport /\ [][NextReport]_vars

(***************************************************************************)
(* Reassembler and splice report claims                                    *)
(***************************************************************************)
\* Byte length of a result once a WAV header, if it has one, is taken off.
StrippedLen(buffer) ==
    IF Len(buffer) > WAV_HEADER_SIZE /\ SubSeq(buffer, 1, 4) = RIFF
      THEN Len(buffer) - WAV_HEADER_SIZE
      ELSE Len(buffer)

\* Sum of the stripped byte lengths of results 0 .. i-1.
RECURSIVE SumLen(_)
SumLen(i) == IF i = 0 THEN 0 ELSE SumLen(i - 1) + StrippedLen(audio_buffers[i - 1])

\* sample_rate * bytes_per_sample * channel_count
BytesPerSecond == SAMPLE_RATE * 2 * CHANNELS

\* Durations of results 0 .. i-1 added up one after the other as floats.
RECURSIVE RunningDuration(_)
RunningDuration(i) ==
    IF i = 0 THEN FloatZero
    ELSE FloatAdd(RunningDuration(i - 1),
                  FloatOf(StrippedLen(audio_buffers[i - 1]), BytesPerSecond, 0))

Abs(x) == IF x < 0 THEN -x ELSE x

\* The float t (with exponent <= 0) is within a relative error of
\* 2 * i * 2^-MantDig of the fraction bytes / BytesPerSecond.
WithinRounding(t, bytes, i) ==
    /\ t.e <= 0
    /\ Abs(t.m * BytesPerSecond - bytes * Pow2(-t.e)) * Pow2(MantDig)
          <= 2 * i * bytes * Pow2(-t.e)

\* C11: for N results the report holds exactly max(N-1, 0) splice points:
\* none for index 0, one for each index 1 .. N-1 in ascending order, each with
\* the start_char and end_char of the chunk of its index.
C11_SpliceCount ==
    /\ rpc = "loop" =>
          Len(splice_points) = IF loop_index >= 1 THEN loop_index - 1 ELSE 0
    /\ rpc = "done" =>
          /\ Len(report.splice_points) = IF N >= 1 THEN N - 1 ELSE 0
          /\ \A k \in 1 .. Len(report.splice_points) :
                /\ report.splice_points[k].splice_index = k
                /\ report.splice_points[k].chunk_start_char = chunks[k + 1].start_char
                /\ report.splice_points[k].chunk_end_char = chunks[k + 1].end_char

\* Three results reported with two splice points.
C11_Witness ==
    /\ rpc = "done"
    /\ N = 3
    /\ Len(report.splice_points) = 2
    /\ report.splice_points[2].chunk_start_char = chunks[3].start_char

\* C12 as stated: the timestamp of the splice point of index i is (sum of
\* the stripped byte lengths of results 0 .. i-1) / bytes_per_second, and the
\* timestamps are non-decreasing in i.
C12_TimestampIsQuotient ==
    rpc = "done" =>
        /\ \A k \in 1 .. Len(report.splice_points) :
              report.splice_points[k].timestamp = FloatOf(SumLen(k), BytesPerSecond, 0)
        /\ \A k \in 1 .. (Len(report.splice_points) - 1) :
              FloatLeq(report.splice_points[k].timestamp,
                       report.splice_points[k + 1].timestamp)

\* C12 amended: the timestamp of the splice point of index i is the float sum,
\* taken in index order, of the durations of results 0 .. i-1, each duration
\* the float stripped-length / bytes_per_second; it is within rounding of
\* (sum of the stripped byte lengths) / bytes_per_second, and the timestamps
\* are non-decreasing in i.
C12_TimestampIsRunningSum ==
    rpc = "done" =>
        /\ \A k \in 1 .. Len(report.splice_points) :
              /\ report.splice_points[k].timestamp = RunningDuration(k)
              /\ WithinRounding(report.splice_points[k].timestamp, SumLen(k), k)
        /\ \A k \in 1 .. (Len(report.splice_points) - 1) :
              FloatLeq(report.splice_points[k].timestamp,
                       report.splice_points[k + 1].timestamp)

\* A report whose second timestamp differs from the rounded quotient, after a
\* first result that had its WAV header taken off.
C12_Witness ==
    /\ rpc = "done"
    /\ N = 3
    /\ Len(audio_buffers[0]) > WAV_HEADER_SIZE
    /\ StrippedLen(audio_buffers[0]) # Len(audio_buffers[0])
    /\ report.splice_points[2].timestamp # FloatOf(SumLen(2), BytesPerSecond, 0)
    /\ report.splice_points[1].timestamp # report.splice_points[2].timestamp

\* t is s without its leading and trailing whitespace.
IsTrimmed(t, s) ==
    \E a \in 1 .. Len(s) : \E b \in a .. Len(s) :
        /\ t = SubSeq(s, a, b)
        /\ ~IsSpace(s[a]) /\ ~IsSpace(s[b])
        /\ \A k \in 1 .. (a - 1) : IsSpace(s[k])
        /\ \A k \in (b + 1) .. Len(s) : IsSpace(s[k])

\* C13: a document of at most MAX_CHUNK_SIZE characters with a non-whitespace
\* character yields exactly one chunk, the trimmed document with start_char 0
\* and end_char len(document); for its single result the report has no splice
\* point and total_duration is the duration of that result.
C13_SingleShortText ==
    (Len(text) <= MAX_CHUNK_SIZE /\ NonBlank(text)) =>
        /\ chunkpc = "done" =>
              /\ Len(chunks) = 1
              /\ IsTrimmed(chunks[1].text, text)
              /\ chunks[1].start_char = 0
              /\ chunks[1].end_char = Len(text)
        /\ rpc = "done" =>
              /\ report.splice_points = <<>>
              /\ report.total_duration =
                    FloatOf(StrippedLen(audio_buffers[0]), BytesPerSecond, 0)

\* A short document with blanks on both sides, reported with its one result.
C13_Witness ==
    /\ rpc = "done"
    /\ Len(text) = MAX_CHUNK_SIZE
    /\ IsSpace(text[1]) /\ IsSpace(text[Len(text)])
    /\ Len(chunks) = 1
    /\ Len(audio_buffers[0]) > WAV_HEADER_SIZE
    /\ report.total_duration # FloatZero

\* Bytes of one sample frame.
FrameSize == (BITS_PER_SAMPLE \div 8) * CHANNELS

\* C16: a result buffer shorter than one sample frame (an empty one
\* included) is rejected: no report is returned for a list of results that
\* holds such a buffer.
C16_ShortBufferRejected ==
    (\E i \in DOMAIN audio_buffers : Len(audio_buffers[i]) < FrameSize) => rpc # "done"

(***************************************************************************)
(* Claims on the outcome of main (under SpecDispatch)                      *)
(***************************************************************************)
\* The results of all N chunks, joined in index order.
CompleteAudio == [audio |-> [k \in 1 .. N |-> AudioOf(k - 1)]]

\* C15: no partially assembled output: the combine step and the write happen
\* only when all N chunk results have been obtained, and once any chunk has
\* failed nothing is combined or saved and main does not return success.
C15_NoPartialOutput ==
    /\ combined_audio # None =>
          /\ mainpc = "returned"
          /\ \A i \in Indices : status[i] = "done" /\ audio_buffers[i] # None
          /\ combined_audio = CompleteAudio
    /\ output_file # None => output_file = CompleteAudio
    /\ exit_code = 0 => output_file = CompleteAudio
    /\ ((\E i \in Indices : status[i] = "failed") \/ raised # None) =>
          /\ combined_audio = None
          /\ output_file = None
          /\ exit_code # 0

\* main returned 1 after two of three results had been stored; nothing was
\* combined or written.
C15_Witness ==
    /\ exit_code = 1
    /\ N = 3
    /\ Cardinality({i \in Indices : audio_buffers[i] # None}) = 2
    /\ combined_audio = None
    /\ output_file = None

\* print(f"Error for chunk {chunk_index + 1}: {e}"), the line a worker prints
\* before it re-raises e.
ErrorLine(i) == [chunk |-> i + 1, error |-> future[i]]

\* What the caller is told about a failed run: the exception that reached
\* main ("Synthesis failed: {e}") and the error lines of the failed workers.
FailureReport ==
    [exception |-> raised,
     lines |-> {ErrorLine(i) : i \in {j \in Indices : status[j] = "failed"}}]

\* C17: when the run fails because of a chunk, the failure report names the
\* failing chunk's index, the kind of error and the number of attempts made
\* for that chunk.
C17_FailureIdentifiesChunk ==
    (exit_code = 1 /\ \E i \in Indices : status[i] = "failed" /\ raised = future[i]) =>
        \E i \in Indices :
            /\ status[i] = "failed"
            /\ raised = future[i]
            /\ \E line \in FailureReport.lines :
                  /\ line.chunk = i + 1
                  /\ line.error = FailureReport.exception
                  /\ "attempts" \in DOMAIN line
                  /\ line.attempts = attempts[i]

\* ---------------------------------------------------------------------------
\* Cuts at structural boundaries (both boundary finders).
\* ---------------------------------------------------------------------------

\* The ends of the sentence ends of w.
SentenceEndOffsets(w) == {pe[2] : pe \in SentenceEnds(w)}

\* The ends of the paragraph breaks ("\n\n") of w that start at offset lo or
\* later, and the ends of its newlines at offset lo or later.
ParagraphEndOffsets(w, lo) ==
    {i + 2 : i \in {j \in lo .. (Len(w) - 2) : At(w, j) = "\n" /\ At(w, j + 1) = "\n"}}
NewlineEndOffsets(w, lo) ==
    {i + 1 : i \in {j \in lo .. (Len(w) - 1) : At(w, j) = "\n"}}

\* The ends of the boundaries a policy recognises in w, line breaks being
\* counted from offset lo.
BoundaryEndOffsets(p, w, lo) ==
    IF p = "sentence_first" THEN SentenceEndOffsets(w)
    ELSE ParagraphEndOffsets(w, lo) \cup NewlineEndOffsets(w, lo)
             \cup SentenceEndOffsets(w)

\* C21 as stated: whenever the search window holds a boundary the active
\* policy recognises (a sentence end for the sentence-first policy; a
\* paragraph break, a newline or a sentence end anywhere in the window for
\* the natural-boundary policy), the cut is the end of such a boundary.
C21_CutAtBoundary ==
    (cut # -1 /\ BoundaryEndOffsets(policy, Window, 0) # {})
        => cut \in BoundaryEndOffsets(policy, Window, 0)

\* C21, amended: the natural-boundary policy looks for paragraph breaks and
\* newlines only from min_offset on; with those counted from min_offset (and
\* sentence ends counted in the whole window, for both policies), the cut is
\* the end of a recognised boundary whenever the window holds one.
C21_CutAtBoundaryFromMin ==
    (cut # -1 /\ BoundaryEndOffsets(policy, Window, min_offset) # {})
        => cut \in BoundaryEndOffsets(policy, Window, min_offset)

\* The natural-boundary policy met a window whose only newline lies before
\* min_offset and cut at the end of a sentence instead.
C21_Witness ==
    /\ policy = "natural"
    /\ cut # -1
    /\ NewlineEndOffsets(Window, 0) # {}
    /\ NewlineEndOffsets(Window, min_offset) = {}
    /\ cut \in SentenceEndOffsets(Window)
    /\ cut \notin NewlineEndOffsets(Window, 0)

\* ---------------------------------------------------------------------------
\* Chunk text, offsets and coverage (both chunkers).
\* ---------------------------------------------------------------------------

\* document[start_char:end_char] of a chunk.
RawSlice(chunk) == Slice(text, chunk.start_char, chunk.end_char)

\* C22: the text of every chunk is document[start_char:end_char] with the
\* leading and trailing whitespace removed: the offsets are those of the
\* untrimmed slice.
C22_TextIsTrimmedSlice ==
    \A k \in DOMAIN chunks : IsTrimmed(chunks[k].text, RawSlice(chunks[k]))

\* chunk_text returned at least two chunks, one of them cut from a slice with
\* whitespace on both sides of its text.
C22_Witness ==
    /\ chunkpc = "done"
    /\ Len(chunks) >= 2
    /\ \E k \in DOMAIN chunks :
          LET raw == RawSlice(chunks[k])
          IN /\ IsSpace(raw[1])
             /\ IsSpace(raw[Len(raw)])
             /\ Len(chunks[k].text) < Len(raw)

\* The chunks whose [start_char, end_char) range holds offset p.
ChunksHolding(p) ==
    {k \in DOMAIN chunks : chunks[k].start_char <= p /\ p < chunks[k].end_char}

\* C23: when chunk_text returns, every offset of the document that holds a
\* non-whitespace character lies in the range of exactly one chunk, the chunks
\* are in strictly ascending start_char order, and every slice that was left
\* out holds whitespace only.
C23_NonBlankCoveredOnce ==
    chunkpc = "done" =>
        /\ \A p \in 0 .. (Len(text) - 1) :
              ~IsSpace(At(text, p)) => Cardinality(ChunksHolding(p)) = 1
        /\ \A k \in 1 .. (Len(chunks) - 1) :
              chunks[k].start_char < chunks[k + 1].start_char
        /\ \A k \in DOMAIN slices :
              ~slices[k].kept => BlankBetween(slices[k].start, slices[k].end)

\* chunk_text returned at least two chunks and left a whitespace-only slice
\* out between the first and the last of them.
C23_Witness ==
    /\ chunkpc = "done"
    /\ Len(chunks) >= 2
    /\ \E k \in DOMAIN slices :
          /\ ~slices[k].kept
          /\ chunks[1].end_char <= slices[k].start
          /\ slices[k].end <= chunks[Len(chunks)].start_char

\* ---------------------------------------------------------------------------
\* The combined buffer (both reassemblers).
\* ---------------------------------------------------------------------------

\* Sum of the byte lengths of results 0 .. i-1 as they were received.
RECURSIVE SumRawLen(_)
SumRawLen(i) == IF i = 0 THEN 0 ELSE SumRawLen(i - 1) + Len(audio_buffers[i - 1])

\* Byte j (from 1) of result i once its framing is stripped: the result's
\* last StrippedLen bytes.
StrippedByte(i, j) ==
    audio_buffers[i][Len(audio_buffers[i]) - StrippedLen(audio_buffers[i]) + j]

\* combined is the stripped results one after the other, in index order.
IsStrippedConcatenation(combined) ==
    /\ Len(combined) = SumLen(N)
    /\ \A i \in Indices : \A j \in 1 .. StrippedLen(audio_buffers[i]) :
          combined[SumLen(i) + j] = StrippedByte(i, j)

\* combined is the results as received one after the other, in index order.
IsPlainConcatenation(combined) ==
    /\ Len(combined) = SumRawLen(N)
    /\ \A i \in Indices : \A j \in 1 .. Len(audio_buffers[i]) :
          combined[SumRawLen(i) + j] = audio_buffers[i][j]

\* C24 as stated: the combined buffer of either reassembler is the
\* concatenation, in index order, of the results with the first 44 bytes
\* removed from every result longer than 44 bytes that begins with 'RIFF';
\* its length is the sum of the stripped lengths.
C24_CombinedIsStripped ==
    rpc \in {"done", "joined"} => IsStrippedConcatenation(report.combined_audio)

\* C24, amended: the WAV reassembler's combined buffer is the concatenation
\* in index order of the stripped results, of length the sum of the stripped
\* lengths; the MP3 reassembler's combined buffer is the concatenation in
\* index order of the results exactly as received.
C24_CombinedPerReassembler ==
    /\ rpc = "done" => IsStrippedConcatenation(report.combined_audio)
    /\ rpc = "joined" => IsPlainConcatenation(report.combined_audio)

\* The WAV reassembler combined at least two results: one with a header that
\* was stripped, one without that was kept whole.
C24_Witness ==
    /\ rpc = "done"
    /\ N >= 2
    /\ \E i \in Indices :
          /\ StrippedLen(audio_buffers[i]) < Len(audio_buffers[i])
          /\ StrippedLen(audio_buffers[i]) > 0
    /\ \E i \in Indices :
          /\ StrippedLen(audio_buffers[i]) = Len(audio_buffers[i])
          /\ Len(audio_buffers[i]) > 0

\* ---------------------------------------------------------------------------
\* Retries seen from the caller, from the other workers, and their number.
\* ---------------------------------------------------------------------------

\* The adapter answered chunk i with k rate limits and nothing else so far.
RateLimitedTimes(i, k) ==
    /\ Len(responses[i]) = k
    /\ AllRateLimited(i)

\* The adapter answered chunk i with k rate limits and then with audio.
RateLimitedThenOk(i, k) ==
    /\ Len(responses[i]) = k + 1
    /\ \A a \in 1 .. k : responses[i][a] = RateLimited
    /\ responses[i][k + 1] = Ok

\* C25: in the fixed-pool dispatcher a chunk rate-limited on k < MAX_RETRIES
\* attempts has not failed; when its next attempt succeeds its audio is the
\* chunk's result and is stored at the chunk's index; and a dispatch that
\* returns returns the same results as one in which no attempt failed, with
\* no exception raised.
C25_RetriedTransientInvisible ==
    pipeline = "compressed" =>
        /\ \A i \in Indices : \A k \in 1 .. (MAX_RETRIES - 1) :
              /\ RateLimitedTimes(i, k) => status[i] \in {"backoff", "in_flight"}
              /\ RateLimitedThenOk(i, k) =>
                    /\ status[i] = "done"
                    /\ attempts[i] = k + 1
                    /\ future[i] = [index |-> i, audio_data |-> AudioOf(i)]
                    /\ (\E c \in 1 .. Len(collected) : collected[c] = i) =>
                          audio_buffers[i] = AudioOf(i)
        /\ mainpc = "returned" =>
              /\ raised = None
              /\ exit_code # 1
              /\ \A i \in Indices : audio_buffers[i] = AudioOf(i)

\* A dispatch returned all its results, one chunk having been rate-limited
\* MAX_RETRIES - 1 times before it succeeded.
C25_Witness ==
    /\ pipeline = "compressed"
    /\ mainpc = "returned"
    /\ N >= 2
    /\ \E i \in Indices : /\ RateLimitedThenOk(i, MAX_RETRIES - 1)
                          /\ audio_buffers[i] = AudioOf(i)

\* C26: while the worker of one chunk sleeps in its backoff, the adapter call
\* in flight for any other chunk can return (with audio or with an error),
\* and a finished chunk's result can be recorded by the dispatcher.
C26_SleepBlocksOnlySleeper ==
    pipeline = "compressed" =>
        \A i \in Indices : \A j \in Indices \ {i} :
            status[i] = "backoff" =>
                /\ status[j] = "in_flight" =>
                      /\ ENABLED RespondOk(j)
                      /\ ENABLED RespondError(j, ServerError)
                /\ (/\ status[j] = "done"
                    /\ mainpc = "collect"
                    /\ \A c \in 1 .. Len(collected) : collected[c] # j) =>
                      ENABLED CollectResult(j)

\* One worker sleeps in its second backoff while another chunk's call is in
\* flight and a third chunk's result has been recorded.
C26_Witness ==
    /\ pipeline = "compressed"
    /\ \E i \in Indices : \E j \in Indices : \E l \in Indices :
          /\ status[i] = "backoff"
          /\ Len(delays[i]) = 2
          /\ status[j] = "in_flight"
          /\ ENABLED RespondOk(j)
          /\ audio_buffers[l] = AudioOf(l)

\* C27: no chunk is ever attempted more than MAX_RETRIES times, and a chunk
\* that has succeeded or has failed is never attempted again (its attempt
\* count and its final status stay as they are).
C27_AttemptsBounded ==
    [][\A i \in Indices :
          /\ attempts'[i] <= MAX_RETRIES
          /\ status[i] \in {"done", "failed"} =>
                /\ attempts'[i] = attempts[i]
                /\ status'[i] = status[i]
                /\ responses'[i] = responses[i]]_vars

\* One chunk has used all MAX_RETRIES attempts and failed, another succeeded
\* at its first attempt.
C27_Witness ==
    \E i \in Indices : \E j \in Indices :
        /\ status[i] = "failed"
        /\ attempts[i] = MAX_RETRIES
        /\ Len(responses[i]) = MAX_RETRIES
        /\ status[j] = "done"
        /\ attempts[j] = 1

(***************************************************************************)
(* Both dispatchers on the same chunks and the same adapter responses      *)
(***************************************************************************)
\* The one-worker-per-chunk pipeline (long_input.py) is run to its end, then
\* the fixed-pool pipeline (long_input_compressed.py) is run on the same
\* chunks; in both runs attempt a of chunk i is answered with script[i][a].
ScriptChunks == 2
ScriptOutcomes == {Ok, RateLimited, ServerError}
Scripts(n) == [0 .. (n - 1) -> [1 .. MAX_RETRIES -> ScriptOutcomes]]
Pipelines == {"wav", "compressed"}

InitCompare ==
    /\ pipeline = "wav"
    /\ N \in 0 .. ScriptChunks
    /\ mainpc = "init"
    /\ submitted = 0
    /\ work_queue = <<>>
    /\ status = [i \in Indices |-> "unsubmitted"]
    /\ attempts = [i \in Indices |-> 0]
    /\ responses = [i \in Indices |-> <<>>]
    /\ delays = [i \in Indices |-> <<>>]
    /\ future = [i \in Indices |-> None]
    /\ collected = <<>>
    /\ audio_buffers = [i \in Indices |-> None]
    /\ raised = None
    /\ text = <<>>
    /\ policy = "natural"
    /\ current_position = 0
    /\ chunks = <<>>
    /\ slices = <<>>
    /\ chunkpc = "done"
    /\ min_offset = 0
    /\ max_offset = 0
    /\ cut = -1
    /\ rpc = "idle"
    /\ loop_index = 0
    /\ splice_points = <<>>
    /\ current_time = None
    /\ raw_buffers = <<>>
    /\ report = None
    /\ combined_audio = None
    /\ output_file = None
    /\ exit_code = -1
    /\ script \in Scripts(N)
    /\ outcome_of = [p \in Pipelines |-> None]

\* requests.post of the current attempt of chunk i returns what the script
\* holds for that attempt.
ScriptedRespond(i) ==
    /\ status[i] = "in_flight"
    /\ LET r == script[i][attempts[i]]
       IN IF r = Ok THEN RespondOk(i) ELSE RespondError(i, r)

\* The dispatch has ended: it returned the result list, or an exception left
\* it (main prints "Synthesis failed").
RecordOutcome ==
    /\ mainpc \in {"returned", "failed"}
    /\ outcome_of[pipeline] = None
    /\ outcome_of' = [outcome_of EXCEPT ![pipeline] =
                         IF mainpc = "returned"
                           THEN [ok |-> TRUE, results |-> audio_buffers]
                           ELSE [ok |-> FALSE, results |-> <<>>]]
    /\ UNCHANGED <<dvars, cvars, bvars, rvars, mvars, script>>

\* The fixed-pool pipeline is started on the same chunks and script.
RunFixedPool ==
    /\ pipeline = "wav"
    /\ outcome_of["wav"] # None
    /\ pipeline' = "compressed"
    /\ mainpc' = "init"
    /\ submitted' = 0
    /\ work_queue' = <<>>
    /\ status' = [i \in Indices |-> "unsubmitted"]
    /\ attempts' = [i \in Indices |-> 0]
    /\ responses' = [i \in Indices |-> <<>>]
    /\ delays' = [i \in Indices |-> <<>>]
    /\ future' = [i \in Indices |-> None]
    /\ collected' = <<>>
    /\ audio_buffers' = [i \in Indices |-> None]
    /\ raised' = None
    /\ UNCHANGED <<svars, cvars, bvars, rvars, mvars, N>>

NextCompare ==
    \/ OpenExecutor
    \/ Submit
    \/ \E i \in Indices : StartCall(i)
    \/ \E i \in Indices : ScriptedRespond(i)
    \/ \E i \in Indices : Wake(i)
    \/ \E i \in Indices : CollectResult(i)
    \/ \E i \in Indices : CollectError(i)
    \/ ShutdownJoined
    \/ RecordOutcome
    \/ RunFixedPool

SpecCompare == InitCompare /\ [][NextCompare]_vars

BothEnded == \A p \in Pipelines : outcome_of[p] # None

C29_CursorStrictlyAdvances ==
    [][chunkpc = "loop" =>
          /\ chunkpc' = "loop" =>
                /\ Len(text) - current_position > MAX_CHUNK_SIZE
                /\ current_position' >= current_position + 1
                /\ current_position' < Len(text)
          /\ chunkpc' = "done" =>
                /\ Len(text) - current_position <= MAX_CHUNK_SIZE
                /\ current_position' = current_position
          /\ Len(slices') <= Len(text)]_vars

\* chunk_text returned after at least three iterations, one of which only
\* moved the cursor over whitespace.
C29_Witness ==
    /\ chunkpc = "done"
    /\ Len(slices) >= 3
    /\ current_position > 0
    /\ \E k \in DOMAIN slices : ~slices[k].kept /\ slices[k].end > slices[k].start

(***************************************************************************)
(* The fixed-pool dispatcher under fair scheduling                         *)
(***************************************************************************)
\* The steps of the worker that runs chunk i: it takes the work item from the
\* queue, its adapter call returns, its backoff sleep ends.
Worker(i) ==
    \/ StartCall(i)
    \/ RespondOk(i)
    \/ \E e \in AdapterOutcomes \ {Ok} : RespondError(i, e)
    \/ Wake(i)

\* The steps of the main thread.
MainThread ==
    \/ OpenExecutor
    \/ Submit
    \/ \E i \in Indices : CollectResult(i)
    \/ \E i \in Indices : CollectError(i)
    \/ ShutdownJoined
    \/ CombineAudio
    \/ SaveAudio
    \/ ReturnSuccess
    \/ ReportFailure

\* Threads are scheduled, every adapter call returns and every sleep ends.
FairDispatch ==
    /\ WF_vars(MainThread)
    /\ \A i \in 0 .. (MaxChunks - 1) : WF_vars(i \in Indices /\ Worker(i))

\* The fixed-pool dispatcher is handed 0 .. MaxChunks chunks.
InitFixedPool ==
    /\ pipeline = "compressed"
    /\ N \in 0 .. MaxChunks
    /\ mainpc = "init"
    /\ submitted = 0
    /\ work_queue = <<>>
    /\ status = [i \in Indices |-> "unsubmitted"]
    /\ attempts = [i \in Indices |-> 0]
    /\ responses = [i \in Indices |-> <<>>]
    /\ delays = [i \in Indices |-> <<>>]
    /\ future = [i \in Indices |-> None]
    /\ collected = <<>>
    /\ audio_buffers = [i \in Indices |-> None]
    /\ raised = None
    /\ text = <<>>
    /\ policy = "natural"
    /\ current_position = 0
    /\ chunks = <<>>
    /\ slices = <<>>
    /\ chunkpc = "done"
    /\ min_offset = 0
    /\ max_offset = 0
    /\ cut = -1
    /\ rpc = "idle"
    /\ loop_index = 0
    /\ splice_points = <<>>
    /\ current_time = None
    /\ raw_buffers = <<>>
    /\ report = None
    /\ combined_audio = None
    /\ output_file = None
    /\ exit_code = -1
    /\ script = <<>>
    /\ outcome_of = <<>>

SpecDispatchFair == InitFixedPool /\ [][NextDispatch]_vars /\ FairDispatch

\* C30: when every adapter call returns, the fixed-pool dispatcher finishes
\* for any number of chunks: every chunk waiting in the queue gets a worker,
\* and the dispatch ends by returning its N results or by raising a failure.
C30_DispatchFinishes ==
    /\ (pipeline = "compressed") =>
          <>(\/ mainpc = "returned" /\ \A i \in Indices : audio_buffers[i] # None
             \/ mainpc = "failed" /\ raised # None)
    /\ \A i \in 0 .. (MaxChunks - 1) :
          (pipeline = "compressed" /\ i \in Indices /\ status[i] = "queued")
              ~> (i \in Indices /\ status[i] \in {"in_flight", "backoff", "done", "failed"})

\* A fixed-pool dispatch of more chunks than workers returned all its
\* results, the last chunk after a backoff.
C30_Witness ==
    /\ pipeline = "compressed"
    /\ N > MAX_CONCURRENT_REQUESTS
    /\ mainpc = "returned"
    /\ \A i \in Indices : audio_buffers[i] # None
    /\ delays[N - 1] # <<>>

\* ---------------------------------------------------------------------------
\* A sleeping worker keeps its slot (fixed-pool dispatcher).
\* ---------------------------------------------------------------------------

\* Chunks whose adapter call is in flight, and chunks whose worker sleeps in
\* backoff.
Calling == {i \in Indices : status[i] = "in_flight"}
Sleeping == {i \in Indices : status[i] = "backoff"}

\* C31: in the fixed-pool dispatcher the chunks in flight and the chunks in
\* backoff together never number more than MAX_CONCURRENT_REQUESTS, and while
\* they number that many (in particular while every worker sleeps in backoff)
\* no queued chunk can start.
C31_BackoffKeepsSlot ==
    pipeline = "compressed" =>
        /\ Cardinality(Calling) + Cardinality(Sleeping) <= MAX_CONCURRENT_REQUESTS
        /\ Cardinality(Calling) + Cardinality(Sleeping) = MAX_CONCURRENT_REQUESTS =>
              \A i \in Indices : ~ENABLED StartCall(i)

\* Every worker of the pool sleeps in backoff while a chunk waits in the queue.
C31_Witness ==
    /\ pipeline = "compressed"
    /\ Cardinality(Sleeping) = MAX_CONCURRENT_REQUESTS
    /\ work_queue # <<>>
    /\ \E i \in Indices : status[i] = "queued"

\* ---------------------------------------------------------------------------
\* total_duration against the combined buffer (splice reporter).
\* ---------------------------------------------------------------------------

\* a * k as a float, for a float a and a natural number k.
FloatTimes(a, k) ==
    IF a.e <= 0 THEN FloatOf(a.m * k, Pow2(-a.e), 0)
    ELSE FloatOf(a.m * k * Pow2(a.e), 1, 0)

\* C32 as stated: total_duration * bytes_per_second equals the byte length
\* of the combined buffer (the product taken in floating point), and every
\* splice timestamp is <= total_duration.
C32_DurationTimesRateIsLength ==
    rpc = "done" =>
        /\ FloatTimes(report.total_duration, BytesPerSecond)
              = FloatOf(Len(report.combined_audio), 1, 0)
        /\ \A k \in 1 .. Len(report.splice_points) :
              FloatLeq(report.splice_points[k].timestamp, report.total_duration)

\* C32, amended: total_duration is the floating-point sum, in index order
\* from 0.0, of the durations of the stripped results; it agrees with
\* len(combined buffer) / bytes_per_second up to rounding (relative error at
\* most 2 * N units of float precision), and every splice timestamp is
\* <= total_duration.
C32_DurationIsRunningSum ==
    rpc = "done" =>
        /\ Len(report.combined_audio) = SumLen(N)
        /\ report.total_duration = RunningDuration(N)
        /\ WithinRounding(report.total_duration, Len(report.combined_audio), N)
        /\ \A k \in 1 .. Len(report.splice_points) :
              FloatLeq(report.splice_points[k].timestamp, report.total_duration)

\* A report of at least two results whose total_duration times
\* bytes_per_second is not the length of the combined buffer, with a splice
\* timestamp below total_duration.
C32_Witness ==
    /\ rpc = "done"
    /\ N >= 2
    /\ FloatTimes(report.total_duration, BytesPerSecond)
          # FloatOf(Len(report.combined_audio), 1, 0)
    /\ \E k \in 1 .. Len(report.splice_points) :
          /\ report.splice_points[k].timestamp # report.total_duration
          /\ report.splice_points[k].timestamp # FloatZero

=============================================================================
